---- MODULE Spec2Model ----
(***************************************************************************)
(* One-off map/reduce jobs of core/domain/activity_jobs_one_off.py over    *)
(* the document datastore.  A string that the code splits or formats at    *)
(* hyphens (a record id) is a sequence of pieces, each piece either the    *)
(* hyphen "-" or a hyphen-free chunk.  A user id is an integer, so that    *)
(* sorted() has an order to work with.  An optional value (None or a       *)
(* value) is the empty or the one-element sequence.                        *)
(***************************************************************************)
EXTENDS Integers, Sequences, FiniteSets, TLC

VARIABLES
    datastore,      \* <<class name, id>> -> stored entity
    datastore0,     \* the datastore when the job started (history)
    pc,             \* per mapped entity: position of its map invocation
    model,          \* per mapped entity: the in-memory entity given to map
    output,         \* per mapped entity: the (key, value) pairs map yielded
    raised,         \* per mapped entity: the exception map ended in, or "none"
    calls,          \* <<function, argument>> of the calls made (history)
    reduce_in,      \* reduce's arguments: job, key, values
    reduce_out      \* the (key, value) pairs reduce yielded

vars == <<datastore, datastore0, pc, model, output, raised, calls,
          reduce_in, reduce_out>>

(***************************************************************************)
(* Bounds of the model.                                                    *)
(***************************************************************************)
MaxCmds == 3

MaxRoleIds == 2

MaxContributors == 2

MaxCommits == 1

MaxIdPieces == 2

MaxValues == 3

(***************************************************************************)
(* Helpers: Python built-ins the jobs use.                                 *)
(***************************************************************************)
None == <<>>

Some(v) == <<v>>

HYPHEN == "-"

RECURSIVE LastHyphen(_, _)
LastHyphen(s, i) ==
    IF i = 0 THEN 0
    ELSE IF s[i] = HYPHEN THEN i
    ELSE LastHyphen(s, i - 1)

\* str.rsplit('-', 1): the pieces left and right of the last hyphen; a
\* one-element list when the string has no hyphen.
rsplit(s) ==
    LET h == LastHyphen(s, Len(s))
    IN  IF h = 0 THEN <<s>>
        ELSE <<SubSeq(s, 1, h - 1), SubSeq(s, h + 1, Len(s))>>

SetMin(S) == CHOOSE m \in S : \A x \in S : m <= x

RECURSIVE sorted(_)
sorted(S) ==
    IF S = {} THEN <<>>
    ELSE LET m == SetMin(S) IN <<m>> \o sorted(S \ {m})

\* set(list)
set(l) == {l[i] : i \in DOMAIN l}

\* key.startswith(prefix), on keys written as sequences of words.
startswith(key, prefix) ==
    /\ Len(key) >= Len(prefix)
    /\ SubSeq(key, 1, Len(prefix)) = prefix

(***************************************************************************)
(* The record store.                                                       *)
(***************************************************************************)
\* Model.get_by_id(id): the stored entity, or None.
get_by_id(ds, class_name, id) ==
    IF <<class_name, id>> \in DOMAIN ds THEN Some(ds[<<class_name, id>>])
    ELSE None

NOW == "now"

\* entity.put(update_last_updated_time=...)
put(ds, entity, update_last_updated_time) ==
    LET stored == IF update_last_updated_time
                  THEN [entity EXCEPT !.last_updated = NOW]
                  ELSE entity
        key == <<entity.class, entity.id>>
    IN  [k \in DOMAIN ds \cup {key} |-> IF k = key THEN stored ELSE ds[k]]

(***************************************************************************)
(* The user-identity service (user_services).                              *)
(***************************************************************************)
\* The canonical user ids.
VALID_USER_IDS == {1, 2}

\* The legacy (GAE) ids that have user settings, with the canonical id.
USER_SETTINGS_BY_GAE_ID == [g \in {11, 12} |-> [user_id |-> IF g = 11 THEN 2 ELSE 1]]

\* A legacy id that has no user settings.
UNRESOLVED_GAE_IDS == {13}

USER_IDS == VALID_USER_IDS \cup DOMAIN USER_SETTINGS_BY_GAE_ID \cup UNRESOLVED_GAE_IDS

is_user_id_valid(user_id) == user_id \in VALID_USER_IDS

get_user_settings_by_gae_id(gae_id) ==
    IF gae_id \in DOMAIN USER_SETTINGS_BY_GAE_ID
    THEN Some(USER_SETTINGS_BY_GAE_ID[gae_id])
    ELSE None

(***************************************************************************)
(* Commit commands: dicts with a 'cmd' tag and auxiliary fields.           *)
(***************************************************************************)
CMD_CHANGE_ROLE == "change_role"

CMD_REMOVE_MANAGER_ROLE == "remove_manager_role"

ChangeRole(a) == [cmd |-> CMD_CHANGE_ROLE, assignee_id |-> a, new_role |-> "editor"]

\* A command other than change_role that carries an assignee_id (commit_cmds
\* are stored as schemaless JSON).
OtherWithAssignee(a) == [cmd |-> "other_with_assignee", assignee_id |-> a]

\* A command without an assignee_id.
ChangeStatus == [cmd |-> "change_exploration_status", new_status |-> "public"]

RemoveManagerRole(u) == [cmd |-> CMD_REMOVE_MANAGER_ROLE, removed_user_id |-> u]

CreateNew == [cmd |-> "create_new"]

RECURSIVE ListsUpTo(_, _)
ListsUpTo(S, n) ==
    IF n = 0 THEN {<<>>}
    ELSE LET shorter == ListsUpTo(S, n - 1)
         IN  shorter \cup {Append(l, x) : l \in shorter, x \in S}

ExpCmds ==
    {ChangeRole(a) : a \in USER_IDS} \cup {OtherWithAssignee(11), ChangeStatus}

SmallCmds == {ChangeRole(11), ChangeRole(1), ChangeStatus}

TopicCmds == {ChangeRole(2), RemoveManagerRole(1), CreateNew}

(***************************************************************************)
(* Class names and ids.                                                    *)
(***************************************************************************)
CollectionRightsSnapshotMetadataModel == "CollectionRightsSnapshotMetadataModel"

ExplorationRightsSnapshotMetadataModel == "ExplorationRightsSnapshotMetadataModel"

TopicRightsSnapshotMetadataModel == "TopicRightsSnapshotMetadataModel"

ExplorationCommitLogEntryModel == "ExplorationCommitLogEntryModel"

\* BaseSnapshotMetadataModel.get_unversioned_instance_id()
get_unversioned_instance_id(snapshot_model) == rsplit(snapshot_model.id)[1]

\* BaseSnapshotMetadataModel.get_version_string()
get_version_string(snapshot_model) == rsplit(snapshot_model.id)[2]

\* The id format of the commit log entries of explorations, not of rights.
exploration_commit_log_id(unversioned_id, version) ==
    <<"exploration", HYPHEN>> \o unversioned_id \o <<HYPHEN>> \o version

\* An id that is the same for every snapshot.
shared_commit_log_id(unversioned_id, version) ==
    <<"rights", HYPHEN, "b2", HYPHEN, "3">>

\* 'rights-%s-%s' % (unversioned id, version)
rights_commit_log_id(unversioned_id, version) ==
    <<"rights", HYPHEN>> \o unversioned_id \o <<HYPHEN>> \o version

(***************************************************************************)
(* AddCommitCmdsUserIdsMetadataJob.                                        *)
(***************************************************************************)
IsNone(x) == Len(x) = 0

MIGRATION_FAILURE == <<"MIGRATION_FAILURE">>

MIGRATION_SUCCESS == <<"MIGRATION_SUCCESS">>

MIGRATION_SUCCESS_MISSING_COMMIT_LOG == <<"MIGRATION_SUCCESS_MISSING_COMMIT_LOG">>

\* 'SUCCESS-%s' % class_name
SuccessKey(class_name) == <<"SUCCESS", HYPHEN, class_name>>

\* The first loop of _migrate_user_id, from command i on: it ends in a
\* KeyError, in the return of a MIGRATION_FAILURE pair, or with new_user_ids.
RECURSIVE resolve_new_user_ids(_, _, _)
resolve_new_user_ids(snapshot_model, i, new_user_ids) ==
    IF i > Len(snapshot_model.commit_cmds)
    THEN [raised |-> "none", returned |-> None, new_user_ids |-> new_user_ids]
    ELSE LET commit_cmd == snapshot_model.commit_cmds[i]
         IN  IF "assignee_id" \notin DOMAIN commit_cmd \/ "cmd" \notin DOMAIN commit_cmd
             THEN [raised |-> "KeyError", returned |-> None,
                   new_user_ids |-> new_user_ids]
             ELSE LET assignee_id == commit_cmd.assignee_id
                  IN  IF /\ commit_cmd.cmd = CMD_CHANGE_ROLE
                         /\ ~is_user_id_valid(assignee_id)
                      THEN LET user_settings == get_user_settings_by_gae_id(assignee_id)
                           IN  IF IsNone(user_settings)
                               THEN [raised |-> "none",
                                     returned |-> Some(<<MIGRATION_FAILURE,
                                                         <<snapshot_model.id, assignee_id>>>>),
                                     new_user_ids |-> new_user_ids]
                               ELSE resolve_new_user_ids(
                                        snapshot_model, i + 1,
                                        [new_user_ids EXCEPT
                                            ![i] = Some(user_settings[1].user_id)])
                      ELSE resolve_new_user_ids(snapshot_model, i + 1, new_user_ids)

\* The second loop of _migrate_user_id: set the resolved ids in commit_cmds.
set_new_user_ids(snapshot_model, new_user_ids) ==
    [snapshot_model EXCEPT !.commit_cmds =
        [i \in DOMAIN snapshot_model.commit_cmds |->
            IF ~IsNone(new_user_ids[i])
            THEN [snapshot_model.commit_cmds[i] EXCEPT
                     !.assignee_id = new_user_ids[i][1]]
            ELSE snapshot_model.commit_cmds[i]]]

\* A callback that puts the snapshot alone.
_put_snapshot_model_only(ds, snapshot_model, commit_log_model) ==
    put(ds, snapshot_model, FALSE)

\* The datastore after _put_both_models has run.
_put_both_models(ds, snapshot_model, commit_log_model) ==
    put(put(ds, snapshot_model, FALSE), commit_log_model, FALSE)

\* transaction_services.run_in_transaction: the writes of the callback are
\* applied together, or the transaction fails and none is.
run_in_transaction(ds, ds_after_callback) ==
    {[committed |-> TRUE, datastore |-> ds_after_callback],
     [committed |-> FALSE, datastore |-> ds]}

MigrateOutcome(exception, result, snapshot_model, ds) ==
    [raised |-> exception, result |-> result,
     snapshot_model |-> snapshot_model, datastore |-> ds]

\* _migrate_user_id from the second loop on (the first loop has ended with
\* first_loop.new_user_ids): the possible outcomes, more than one only where
\* the transaction may commit or fail.
migrate_after_first_loop(ds, snapshot_model, first_loop) ==
    LET migrated == set_new_user_ids(snapshot_model, first_loop.new_user_ids)
        commit_log_model ==
            get_by_id(ds, ExplorationCommitLogEntryModel,
                      rights_commit_log_id(
                          get_unversioned_instance_id(migrated),
                          get_version_string(migrated)))
    IN  IF IsNone(commit_log_model)
        THEN {MigrateOutcome(
                  "none",
                  Some(<<MIGRATION_SUCCESS_MISSING_COMMIT_LOG, migrated.id>>),
                  migrated, put(ds, migrated, FALSE))}
        ELSE
        LET log == [commit_log_model[1] EXCEPT
                       !.commit_cmds = migrated.commit_cmds]
        IN  {IF t.committed
             THEN MigrateOutcome("none",
                                 Some(<<MIGRATION_SUCCESS, migrated.id>>),
                                 migrated, t.datastore)
             ELSE MigrateOutcome("TransactionFailedError", None,
                                 migrated, t.datastore) :
             t \in run_in_transaction(ds, _put_both_models(ds, migrated, log))}

\* A single loop that sets each resolved id as it goes: a failure at the
\* second command leaves the first one set in the entity map goes on with.
_migrate_user_id_single_loop(ds, snapshot_model) ==
    IF Len(snapshot_model.commit_cmds) # 2
    THEN {MigrateOutcome("AssertionError", None, snapshot_model, ds)}
    ELSE
    LET first_loop == resolve_new_user_ids(snapshot_model, 1, <<None, None>>)
    IN  IF first_loop.raised # "none"
        THEN {MigrateOutcome(first_loop.raised, None, snapshot_model, ds)}
        ELSE IF ~IsNone(first_loop.returned)
        THEN {MigrateOutcome("none", first_loop.returned,
                             set_new_user_ids(snapshot_model,
                                              first_loop.new_user_ids), ds)}
        ELSE migrate_after_first_loop(ds, snapshot_model, first_loop)

\* _migrate_user_id: the possible outcomes of one call.
_migrate_user_id(ds, snapshot_model) ==
    IF Len(snapshot_model.commit_cmds) # 2
    THEN {MigrateOutcome("AssertionError", None, snapshot_model, ds)}
    ELSE
    LET first_loop == resolve_new_user_ids(snapshot_model, 1, <<None, None>>)
    IN  IF first_loop.raised # "none"
        THEN {MigrateOutcome(first_loop.raised, None, snapshot_model, ds)}
        ELSE IF ~IsNone(first_loop.returned)
        THEN {MigrateOutcome("none", first_loop.returned, snapshot_model, ds)}
        ELSE migrate_after_first_loop(ds, snapshot_model, first_loop)

\* A commit command whose fields the user-id merge cannot read.
RaisesKeyError(commit_cmd, fields_by_cmd) ==
    \/ "cmd" \notin DOMAIN commit_cmd
    \/ /\ commit_cmd.cmd \in DOMAIN fields_by_cmd
       /\ fields_by_cmd[commit_cmd.cmd] \notin DOMAIN commit_cmd

\* The user ids the merge loop collects: fields_by_cmd names, per 'cmd', the
\* field whose value is added.
MergedUserIds(commit_cmds, fields_by_cmd) ==
    {commit_cmds[i][fields_by_cmd[commit_cmds[i].cmd]] :
        i \in {j \in DOMAIN commit_cmds : commit_cmds[j].cmd \in DOMAIN fields_by_cmd}}

AddUserIds(ds, snapshot_model, fields_by_cmd) ==
    IF \E i \in DOMAIN snapshot_model.commit_cmds :
           RaisesKeyError(snapshot_model.commit_cmds[i], fields_by_cmd)
    THEN [raised |-> "KeyError", snapshot_model |-> snapshot_model, datastore |-> ds]
    ELSE LET updated == [snapshot_model EXCEPT !.commit_cmds_user_ids =
                            sorted(MergedUserIds(snapshot_model.commit_cmds,
                                                 fields_by_cmd))]
         IN  [raised |-> "none", snapshot_model |-> updated,
              datastore |-> put(ds, updated, FALSE)]

_add_col_and_exp_user_ids(ds, snapshot_model) ==
    AddUserIds(ds, snapshot_model,
               [c \in {CMD_CHANGE_ROLE} |-> "assignee_id"])

AddCommitCmds_add_topic_user_ids(ds, snapshot_model) ==
    AddUserIds(ds, snapshot_model,
               [c \in {CMD_CHANGE_ROLE, CMD_REMOVE_MANAGER_ROLE} |->
                   IF c = CMD_CHANGE_ROLE THEN "assignee_id" ELSE "removed_user_id"])

\* A test that lets the longer lists through as well.
has_two_or_more_commit_cmds(snapshot_model) == Len(snapshot_model.commit_cmds) >= 2

\* The test of map that sends an exploration rights snapshot to
\* _migrate_user_id.
has_two_commit_cmds(snapshot_model) == Len(snapshot_model.commit_cmds) = 2

(***************************************************************************)
(* What every job run starts from, and how a map invocation ends.          *)
(***************************************************************************)
\* The job framework hands each stored entity of the classes mapped over to
\* one map invocation.
StartOf(ds, keys) ==
    /\ datastore = ds
    /\ datastore0 = ds
    /\ pc = [k \in keys |-> "start"]
    /\ model = [k \in keys |-> ds[k]]
    /\ output = [k \in keys |-> <<>>]
    /\ raised = [k \in keys |-> "none"]
    /\ calls = {}
    /\ reduce_in = None
    /\ reduce_out = <<>>

Store(entities) == [k \in {<<e.class, e.id>> : e \in entities} |->
                       CHOOSE e \in entities : <<e.class, e.id>> = k]

Raise(k, exception) ==
    /\ raised' = [raised EXCEPT ![k] = exception]
    /\ pc' = [pc EXCEPT ![k] = "raised"]
    /\ UNCHANGED output

Yield(k, pairs, next_pc) ==
    /\ output' = [output EXCEPT ![k] = @ \o pairs]
    /\ pc' = [pc EXCEPT ![k] = next_pc]
    /\ UNCHANGED raised

(***************************************************************************)
(* AddCommitCmdsUserIdsMetadataJob: the job run.                           *)
(***************************************************************************)
SnapshotMetadata(class_name, id, commit_type, commit_cmds) ==
    [class |-> class_name, id |-> id, commit_type |-> commit_type,
     commit_cmds |-> commit_cmds, commit_cmds_user_ids |-> <<>>,
     content_user_ids |-> <<>>, last_updated |-> "then"]

CommitLogEntry(class_name, id, commit_cmds) ==
    [class |-> class_name, id |-> id, commit_cmds |-> commit_cmds,
     last_updated |-> "then"]

AddCommitCmds_entity_classes_to_map_over ==
    {CollectionRightsSnapshotMetadataModel,
     ExplorationRightsSnapshotMetadataModel,
     TopicRightsSnapshotMetadataModel}

\* Stored ids: a snapshot's is '<entity id>-<version>', its commit log
\* entry's is 'rights-<entity id>-<version>'.
SnapshotId(entity_id, version) == <<entity_id, HYPHEN, version>>

RightsLogId(entity_id, version) == <<"rights", HYPHEN, entity_id, HYPHEN, version>>

\* The commit command lists a stored snapshot of a class may hold.
CommitCmdLists(class_name) ==
    IF class_name = ExplorationRightsSnapshotMetadataModel
    THEN ListsUpTo(SmallCmds, MaxCmds)
         \cup {<<c, d>> : c \in ExpCmds, d \in ExpCmds}
    ELSE IF class_name = TopicRightsSnapshotMetadataModel
    THEN ListsUpTo(TopicCmds, MaxCmds)
    ELSE ListsUpTo(SmallCmds, MaxCmds)

\* The commit log entry written with a rights snapshot carries its commands.
CommitLogOf(entity_id, version, commit_cmds) ==
    CommitLogEntry(ExplorationCommitLogEntryModel,
                   RightsLogId(entity_id, version), commit_cmds)

\* One snapshot of any class with any command list, its commit log entry
\* present or not, beside an exploration rights snapshot that needs the
\* migration, its second user resolvable or not.
AddCommitCmdsInit ==
    \E class_name \in AddCommitCmds_entity_classes_to_map_over :
    \E commit_cmds \in CommitCmdLists(class_name) :
    \E has_commit_log \in BOOLEAN :
    \E second_assignee_id \in {11} \cup UNRESOLVED_GAE_IDS :
        LET first == SnapshotMetadata(class_name, SnapshotId("a1", "1"),
                                      "edit", commit_cmds)
            second_cmds == <<ChangeRole(12), ChangeRole(second_assignee_id)>>
            second == SnapshotMetadata(ExplorationRightsSnapshotMetadataModel,
                                       SnapshotId("b2", "3"), "edit", second_cmds)
            logs == IF has_commit_log
                       /\ class_name = ExplorationRightsSnapshotMetadataModel
                    THEN {CommitLogOf("a1", "1", commit_cmds),
                          CommitLogOf("b2", "3", second_cmds)}
                    ELSE {CommitLogOf("b2", "3", second_cmds)}
        IN  /\ has_commit_log \/ class_name = ExplorationRightsSnapshotMetadataModel
            /\ StartOf(Store({first, second} \cup logs),
                       {<<first.class, first.id>>, <<second.class, second.id>>})

\* map, for a collection rights snapshot.
AddCommitCmdsMapCollection(k) ==
    /\ pc[k] = "start"
    /\ model[k].class = CollectionRightsSnapshotMetadataModel
    /\ LET r == _add_col_and_exp_user_ids(datastore, model[k])
       IN  /\ datastore' = r.datastore
           /\ model' = [model EXCEPT ![k] = r.snapshot_model]
           /\ IF r.raised # "none" THEN Raise(k, r.raised)
              ELSE Yield(k, <<<<SuccessKey(model[k].class), model[k].id>>>>, "done")
    /\ UNCHANGED <<datastore0, calls, reduce_in, reduce_out>>

\* map, for an exploration rights snapshot with two commands, up to the
\* yield of _migrate_user_id's result.
AddCommitCmdsMapMigrate(k) ==
    /\ pc[k] = "start"
    /\ model[k].class = ExplorationRightsSnapshotMetadataModel
    /\ has_two_commit_cmds(model[k])
    /\ \E o \in _migrate_user_id(datastore, model[k]) :
           /\ datastore' = o.datastore
           /\ model' = [model EXCEPT ![k] = o.snapshot_model]
           /\ IF o.raised # "none" THEN Raise(k, o.raised)
              ELSE Yield(k, o.result, "yielded_result")
    /\ calls' = calls \cup {<<"_migrate_user_id", model[k]>>}
    /\ UNCHANGED <<datastore0, reduce_in, reduce_out>>

\* map, for an exploration rights snapshot, from the call of
\* _add_col_and_exp_user_ids on.
AddCommitCmdsMapExploration(k) ==
    /\ model[k].class = ExplorationRightsSnapshotMetadataModel
    /\ IF has_two_commit_cmds(model[k]) THEN pc[k] = "yielded_result"
       ELSE pc[k] = "start"
    /\ LET r == _add_col_and_exp_user_ids(datastore, model[k])
       IN  /\ datastore' = r.datastore
           /\ model' = [model EXCEPT ![k] = r.snapshot_model]
           /\ IF r.raised # "none" THEN Raise(k, r.raised)
              ELSE Yield(k, <<<<SuccessKey(model[k].class), model[k].id>>>>, "done")
    /\ UNCHANGED <<datastore0, calls, reduce_in, reduce_out>>

\* map, for a topic rights snapshot.
AddCommitCmdsMapTopic(k) ==
    /\ pc[k] = "start"
    /\ model[k].class = TopicRightsSnapshotMetadataModel
    /\ LET r == AddCommitCmds_add_topic_user_ids(datastore, model[k])
       IN  /\ datastore' = r.datastore
           /\ model' = [model EXCEPT ![k] = r.snapshot_model]
           /\ IF r.raised # "none" THEN Raise(k, r.raised)
              ELSE Yield(k, <<<<SuccessKey(model[k].class), model[k].id>>>>, "done")
    /\ UNCHANGED <<datastore0, calls, reduce_in, reduce_out>>

AddCommitCmdsNext ==
    \/ \E k \in DOMAIN pc : AddCommitCmdsMapCollection(k)
    \/ \E k \in DOMAIN pc : AddCommitCmdsMapMigrate(k)
    \/ \E k \in DOMAIN pc : AddCommitCmdsMapExploration(k)
    \/ \E k \in DOMAIN pc : AddCommitCmdsMapTopic(k)

Spec == AddCommitCmdsInit /\ [][AddCommitCmdsNext]_vars

(***************************************************************************)
(* AddCommitCmdsUserIdsMetadataJob: properties.                            *)
(***************************************************************************)
\* The keys of the pairs the map invocation of k has yielded under `key`.
Yielded(k, key) == {i \in DOMAIN output[k] : output[k][i][1] = key}

\* What _migrate_user_id was given for k: an exploration rights snapshot
\* with two commands.
IsMigrated(k) ==
    /\ datastore0[k].class = ExplorationRightsSnapshotMetadataModel
    /\ Len(datastore0[k].commit_cmds) = 2

\* The stored commit log entry of the snapshot k, if any.
LogKey(k) ==
    <<ExplorationCommitLogEntryModel,
      <<"rights", HYPHEN, datastore0[k].id[1], HYPHEN, datastore0[k].id[3]>>>>

NeedsLookup(commit_cmd) ==
    /\ commit_cmd.cmd = CMD_CHANGE_ROLE
    /\ "assignee_id" \in DOMAIN commit_cmd
    /\ commit_cmd.assignee_id \notin VALID_USER_IDS

Unresolvable(commit_cmd) ==
    /\ NeedsLookup(commit_cmd)
    /\ commit_cmd.assignee_id \in UNRESOLVED_GAE_IDS

\* The index of the command whose lookup returns None in a call of
\* _migrate_user_id on commit_cmds: the first unresolvable one, when every
\* command before it carries an assignee_id; 0 when no lookup returns None.
FailingIndex(commit_cmds) ==
    IF /\ Unresolvable(commit_cmds[1])
    THEN 1
    ELSE IF /\ "assignee_id" \in DOMAIN commit_cmds[1]
            /\ Unresolvable(commit_cmds[2])
    THEN 2
    ELSE 0

C2_BothOrNeither ==
    \A k \in DOMAIN pc :
        LogKey(k) \in DOMAIN datastore =>
            LET snapshot_changed ==
                    datastore[k].commit_cmds # datastore0[k].commit_cmds
                log_changed ==
                    datastore[LogKey(k)].commit_cmds
                        # datastore0[LogKey(k)].commit_cmds
            IN  /\ snapshot_changed <=> log_changed
                /\ snapshot_changed =>
                       datastore[k].commit_cmds = datastore[LogKey(k)].commit_cmds

\* One invocation's transaction has failed while the other's has committed
\* a correction.
C2_Witness ==
    \E k, j \in DOMAIN pc :
        /\ raised[k] = "TransactionFailedError"
        /\ NeedsLookup(datastore0[k].commit_cmds[1])
        /\ datastore[k] = datastore0[k]
        /\ Yielded(j, MIGRATION_SUCCESS) # {}
        /\ datastore[j].commit_cmds # datastore0[j].commit_cmds
        /\ datastore[LogKey(j)].commit_cmds # datastore0[LogKey(j)].commit_cmds

\* C3: no map invocation ends in an exception over the data it is given.
C3_NeverRaisesForBadData ==
    \A k \in DOMAIN pc :
        raised[k] \notin {"KeyError", "AttributeError", "AssertionError", "ValueError"}

\* The entities _migrate_user_id was called with.
MigrateCalls == {c[2] : c \in {d \in calls : d[1] = "_migrate_user_id"}}

\* C4: _migrate_user_id is called only with exploration rights snapshots of
\* exactly two commit commands, so that its assertion never fails.
C4_MigrateOnlyLengthTwo ==
    /\ \A snapshot_model \in MigrateCalls :
           /\ snapshot_model.class = ExplorationRightsSnapshotMetadataModel
           /\ Len(snapshot_model.commit_cmds) = 2
    /\ \A k \in DOMAIN pc : raised[k] # "AssertionError"
    /\ \A k \in DOMAIN pc :
           (pc[k] # "start" /\ IsMigrated(k)) => datastore0[k] \in MigrateCalls

\* An exploration rights snapshot of three commands has been mapped without
\* the call, and the snapshot beside it with it.
C4_Witness ==
    \E k, j \in DOMAIN pc :
        /\ datastore0[k].class = ExplorationRightsSnapshotMetadataModel
        /\ Len(datastore0[k].commit_cmds) = 3
        /\ pc[k] = "done"
        /\ datastore0[k] \notin MigrateCalls
        /\ datastore0[j] \in MigrateCalls

\* The commit_cmds _migrate_user_id stores for commit_cmds when every lookup
\* resolves.
CorrectedCmd(commit_cmd) ==
    IF NeedsLookup(commit_cmd)
    THEN [commit_cmd EXCEPT
             !.assignee_id = USER_SETTINGS_BY_GAE_ID[commit_cmd.assignee_id].user_id]
    ELSE commit_cmd

\* C10: once map has yielded MIGRATION_SUCCESS for a snapshot, the commit log
\* entry 'rights-<entity id>-<version>' is stored with the commit_cmds of the
\* stored snapshot; MIGRATION_SUCCESS is yielded exactly when that entry
\* existed, and MIGRATION_SUCCESS_MISSING_COMMIT_LOG when it did not: then
\* the snapshot alone is written and no entry is created.
C10_CommitLogSynchronized ==
    \A k \in DOMAIN pc :
        /\ Yielded(k, MIGRATION_SUCCESS) # {} =>
               /\ LogKey(k) \in DOMAIN datastore0
               /\ datastore[LogKey(k)].commit_cmds = datastore[k].commit_cmds
               /\ datastore[k].commit_cmds =
                      [i \in {1, 2} |-> CorrectedCmd(datastore0[k].commit_cmds[i])]
        /\ Yielded(k, MIGRATION_SUCCESS_MISSING_COMMIT_LOG) # {} =>
               /\ LogKey(k) \notin DOMAIN datastore0
               /\ DOMAIN datastore = DOMAIN datastore0
               /\ datastore[k].commit_cmds =
                      [i \in {1, 2} |-> CorrectedCmd(datastore0[k].commit_cmds[i])]
        /\ (IsMigrated(k) /\ pc[k] \in {"yielded_result", "done"}
                /\ FailingIndex(datastore0[k].commit_cmds) = 0) =>
               IF LogKey(k) \in DOMAIN datastore0
               THEN Yielded(k, MIGRATION_SUCCESS) # {}
               ELSE Yielded(k, MIGRATION_SUCCESS_MISSING_COMMIT_LOG) # {}

\* Map has completed on a snapshot whose two commands were both corrected in
\* the snapshot and in its commit log entry, and on one without an entry.
C10_Witness ==
    \E k, j \in DOMAIN pc :
        /\ pc[k] = "done" /\ pc[j] = "done"
        /\ Yielded(k, MIGRATION_SUCCESS) # {}
        /\ datastore[LogKey(k)].commit_cmds # datastore0[LogKey(k)].commit_cmds
        /\ Yielded(j, MIGRATION_SUCCESS_MISSING_COMMIT_LOG) # {}
        /\ datastore[j].commit_cmds # datastore0[j].commit_cmds

\* The user ids commit_cmds name: the assignee_id of every change-role
\* command and, for topic rights, the removed_user_id of every
\* remove-manager-role command.
NamedUserIds(class_name, commit_cmds) ==
    {commit_cmds[i].assignee_id :
        i \in {j \in DOMAIN commit_cmds : commit_cmds[j].cmd = CMD_CHANGE_ROLE}}
    \cup
    IF class_name = TopicRightsSnapshotMetadataModel
    THEN {commit_cmds[i].removed_user_id :
             i \in {j \in DOMAIN commit_cmds :
                        commit_cmds[j].cmd = CMD_REMOVE_MANAGER_ROLE}}
    ELSE {}

\* The stored commit_cmds_user_ids of k are the sorted ids its stored
\* commit_cmds name.
UserIdsAreNamedIds(k) ==
    datastore[k].commit_cmds_user_ids =
        sorted(NamedUserIds(datastore[k].class, datastore[k].commit_cmds))

\* C11: once map has processed a rights snapshot (it has ended, and not in
\* a failed transaction, which leaves the record to a retry), the stored
\* commit_cmds_user_ids of the snapshot are the sorted, duplicate-free user
\* ids that its stored commit_cmds name; a MIGRATION_FAILURE does not abort
\* map, which still yields the SUCCESS-<class name> pair.
C11_CommitCmdsUserIdsAreNamedIds ==
    \A k \in DOMAIN pc :
        /\ (pc[k] \in {"done", "raised"} /\ raised[k] # "TransactionFailedError")
               => UserIdsAreNamedIds(k)
        /\ (pc[k] = "done" /\ Yielded(k, MIGRATION_FAILURE) # {}) =>
               Yielded(k, SuccessKey(datastore[k].class)) # {}

\* The part of C11 that the code keeps: what holds of the snapshots on which
\* map has run to its last yield, a MIGRATION_FAILURE before it or not.
CommitCmdsUserIdsWhenMapCompletes ==
    \A k \in DOMAIN pc :
        /\ pc[k] = "done" =>
               /\ UserIdsAreNamedIds(k)
               /\ Yielded(k, SuccessKey(datastore[k].class)) # {}
        /\ Yielded(k, MIGRATION_FAILURE) # {} => raised[k] = "none"

\* Map has completed after a MIGRATION_FAILURE and has stored the unresolved
\* id among the commit_cmds_user_ids.
MigrationFailureStillMerged ==
    \E k \in DOMAIN pc :
        /\ pc[k] = "done"
        /\ Yielded(k, MIGRATION_FAILURE) # {}
        /\ datastore[k].commit_cmds_user_ids # <<>>

\* What the claim of per-index correction says of one command: its
\* assignee_id is the resolved id iff it is a change-role command whose
\* assignee_id is not a valid user id (and resolves); nothing else changes.
DecidedCmd(commit_cmd) ==
    IF NeedsLookup(commit_cmd) /\ ~Unresolvable(commit_cmd)
    THEN [commit_cmd EXCEPT
             !.assignee_id = USER_SETTINGS_BY_GAE_ID[commit_cmd.assignee_id].user_id]
    ELSE commit_cmd

\* The commit_cmds of the entity that _migrate_user_id has worked on are,
\* index by index, what the claim says.
DecidedPerIndex(k) ==
    \A i \in {1, 2} :
        model[k].commit_cmds[i] = DecidedCmd(datastore0[k].commit_cmds[i])

\* C13: after a call of _migrate_user_id in which no user lookup has
\* returned None, each of the two commands of the snapshot has its
\* assignee_id replaced by the resolved user id iff it is a change-role
\* command whose assignee_id is not a valid user id, whatever the other
\* command is; no other field of either command has changed.
C13_CorrectionPerIndex ==
    \A k \in DOMAIN pc :
        (/\ IsMigrated(k)
         /\ pc[k] # "start"
         /\ FailingIndex(datastore0[k].commit_cmds) = 0) =>
            DecidedPerIndex(k)

\* The part of C13 that the code keeps: what holds of the calls that got
\* through the first loop, the transaction committed or not.
CorrectionPerIndexWhenFirstLoopEnds ==
    \A k \in DOMAIN pc :
        (/\ IsMigrated(k)
         /\ pc[k] # "start"
         /\ FailingIndex(datastore0[k].commit_cmds) = 0
         /\ raised[k] # "KeyError") =>
            /\ DecidedPerIndex(k)
            /\ raised[k] = "none" => datastore[k].commit_cmds = model[k].commit_cmds

\* A call has corrected the second command alone.
OneIndexCorrected ==
    \E k \in DOMAIN pc :
        /\ IsMigrated(k)
        /\ pc[k] = "done"
        /\ datastore[k].commit_cmds[1] = datastore0[k].commit_cmds[1]
        /\ datastore[k].commit_cmds[2] # datastore0[k].commit_cmds[2]

(***************************************************************************)
(* AddContentUserIdsContentJob.                                            *)
(***************************************************************************)
CollectionRightsSnapshotContentModel == "CollectionRightsSnapshotContentModel"

ExplorationRightsSnapshotContentModel == "ExplorationRightsSnapshotContentModel"

TopicRightsSnapshotContentModel == "TopicRightsSnapshotContentModel"

\* RightsModel.convert_to_valid_dict(content), then RightsModel(**content):
\* the rights model reconstituted from a snapshot's content holds its role
\* lists.
convert_to_valid_dict(content) ==
    [owner_ids |-> content.owner_ids, editor_ids |-> content.editor_ids,
     voice_artist_ids |-> content.voice_artist_ids,
     viewer_ids |-> content.viewer_ids]

\* A merge that leaves the viewers out.
merge_without_viewer_ids(reconstituted_rights_model) ==
    sorted(set(reconstituted_rights_model.owner_ids)
           \cup set(reconstituted_rights_model.editor_ids)
           \cup set(reconstituted_rights_model.voice_artist_ids))

\* list(sorted(set(owner_ids) | set(editor_ids) | set(voice_artist_ids) |
\* set(viewer_ids)))
merge_col_and_exp_user_ids(reconstituted_rights_model) ==
    sorted(set(reconstituted_rights_model.owner_ids)
           \cup set(reconstituted_rights_model.editor_ids)
           \cup set(reconstituted_rights_model.voice_artist_ids)
           \cup set(reconstituted_rights_model.viewer_ids))

\* list(sorted(set(manager_ids)))
merge_topic_user_ids(reconstituted_rights_model) ==
    sorted(set(reconstituted_rights_model.manager_ids))

\* A variant whose put leaves update_last_updated_time at its default.
SetContentUserIds_updating_time(ds, metadata_class, snapshot_content_model, content_user_ids) ==
    LET snapshot_metadata_model ==
            get_by_id(ds, metadata_class, snapshot_content_model.id)
    IN  IF IsNone(snapshot_metadata_model)
        THEN [raised |-> "AttributeError", datastore |-> ds]
        ELSE [raised |-> "none",
              datastore |->
                  put(ds,
                      [snapshot_metadata_model[1] EXCEPT
                          !.content_user_ids = content_user_ids],
                      TRUE)]

\* The three _add_*_user_ids: look the metadata record of the same id up, set
\* its content_user_ids and put it. Setting the field of None raises.
SetContentUserIds(ds, metadata_class, snapshot_content_model, content_user_ids) ==
    LET snapshot_metadata_model ==
            get_by_id(ds, metadata_class, snapshot_content_model.id)
    IN  IF IsNone(snapshot_metadata_model)
        THEN [raised |-> "AttributeError", datastore |-> ds]
        ELSE [raised |-> "none",
              datastore |->
                  put(ds,
                      [snapshot_metadata_model[1] EXCEPT
                          !.content_user_ids = content_user_ids],
                      FALSE)]

_add_collection_user_ids(ds, snapshot_content_model) ==
    SetContentUserIds(
        ds, CollectionRightsSnapshotMetadataModel, snapshot_content_model,
        merge_col_and_exp_user_ids(
            convert_to_valid_dict(snapshot_content_model.content)))

_add_exploration_user_ids(ds, snapshot_content_model) ==
    SetContentUserIds(
        ds, ExplorationRightsSnapshotMetadataModel, snapshot_content_model,
        merge_col_and_exp_user_ids(
            convert_to_valid_dict(snapshot_content_model.content)))

AddContent_add_topic_user_ids(ds, snapshot_content_model) ==
    SetContentUserIds(
        ds, TopicRightsSnapshotMetadataModel, snapshot_content_model,
        merge_topic_user_ids(snapshot_content_model.content))

AddContent_entity_classes_to_map_over ==
    {CollectionRightsSnapshotContentModel,
     ExplorationRightsSnapshotContentModel,
     TopicRightsSnapshotContentModel}

SnapshotContent(class_name, id, content) ==
    [class |-> class_name, id |-> id, content |-> content,
     last_updated |-> "then"]

\* The metadata class of the snapshots of a content class.
MetadataClassOf(content_class) ==
    IF content_class = CollectionRightsSnapshotContentModel
    THEN CollectionRightsSnapshotMetadataModel
    ELSE IF content_class = ExplorationRightsSnapshotContentModel
    THEN ExplorationRightsSnapshotMetadataModel
    ELSE TopicRightsSnapshotMetadataModel

RoleUserIds == {1, 2, 3}

\* The contents a stored rights snapshot of a class may hold: role lists in
\* any order, with repeated ids.
RightsContents(content_class) ==
    IF content_class = TopicRightsSnapshotContentModel
    THEN {[manager_ids |-> m, topic_is_published |-> FALSE] :
             m \in ListsUpTo(RoleUserIds, MaxRoleIds + 1)}
    ELSE {[owner_ids |-> o, editor_ids |-> e, voice_artist_ids |-> a,
           viewer_ids |-> v, status |-> "private"] :
             o \in ListsUpTo(RoleUserIds, MaxRoleIds),
             e \in ListsUpTo(RoleUserIds, MaxRoleIds),
             a \in ListsUpTo({1, 2}, 1), v \in ListsUpTo({2, 3}, 1)}

\* One snapshot content of any class with any role lists, its metadata
\* record stored or not, beside a topic rights snapshot.
AddContentInit ==
    \E content_class \in AddContent_entity_classes_to_map_over :
    \E content \in RightsContents(content_class) :
    \E has_metadata \in BOOLEAN :
        LET first == SnapshotContent(content_class, SnapshotId("a1", "1"), content)
            second == SnapshotContent(
                          TopicRightsSnapshotContentModel, SnapshotId("b2", "3"),
                          [manager_ids |-> <<3, 1, 3>>, topic_is_published |-> TRUE])
            metadata ==
                {SnapshotMetadata(TopicRightsSnapshotMetadataModel,
                                  SnapshotId("b2", "3"), "edit", <<CreateNew>>)}
                \cup IF has_metadata
                     THEN {SnapshotMetadata(MetadataClassOf(content_class),
                                            SnapshotId("a1", "1"), "create",
                                            <<CreateNew>>)}
                     ELSE {}
        IN  StartOf(Store({first, second} \cup metadata),
                    {<<first.class, first.id>>, <<second.class, second.id>>})

\* How the call of an _add_*_user_ids and the yield after it end map.
AddContentMapEnd(k, r) ==
    /\ datastore' = r.datastore
    /\ IF r.raised # "none" THEN Raise(k, r.raised)
       ELSE Yield(k, <<<<SuccessKey(model[k].class), model[k].id>>>>, "done")
    /\ UNCHANGED <<datastore0, model, calls, reduce_in, reduce_out>>

AddContentMapCollection(k) ==
    /\ pc[k] = "start"
    /\ model[k].class = CollectionRightsSnapshotContentModel
    /\ AddContentMapEnd(k, _add_collection_user_ids(datastore, model[k]))

AddContentMapExploration(k) ==
    /\ pc[k] = "start"
    /\ model[k].class = ExplorationRightsSnapshotContentModel
    /\ AddContentMapEnd(k, _add_exploration_user_ids(datastore, model[k]))

AddContentMapTopic(k) ==
    /\ pc[k] = "start"
    /\ model[k].class = TopicRightsSnapshotContentModel
    /\ AddContentMapEnd(k, AddContent_add_topic_user_ids(datastore, model[k]))

AddContentNext ==
    \/ \E k \in DOMAIN pc : AddContentMapCollection(k)
    \/ \E k \in DOMAIN pc : AddContentMapExploration(k)
    \/ \E k \in DOMAIN pc : AddContentMapTopic(k)

SpecAddContent == AddContentInit /\ [][AddContentNext]_vars

(***************************************************************************)
(* AddContentUserIdsContentJob: properties.                                *)
(***************************************************************************)
\* The ids in the role lists of a snapshot content.
RoleIdsOf(snapshot_content_model) ==
    LET content == snapshot_content_model.content
        Ids(l) == {l[i] : i \in DOMAIN l}
    IN  IF snapshot_content_model.class = TopicRightsSnapshotContentModel
        THEN Ids(content.manager_ids)
        ELSE Ids(content.owner_ids) \cup Ids(content.editor_ids)
             \cup Ids(content.voice_artist_ids) \cup Ids(content.viewer_ids)

StrictlyIncreasing(l) == \A i, j \in DOMAIN l : i < j => l[i] < l[j]

MetadataKey(k) == <<MetadataClassOf(k[1]), k[2]>>

\* C5: once map has processed a rights snapshot content whose metadata
\* record is stored, the content_user_ids of that record are in increasing
\* order without repeats and hold exactly the ids of the role lists of the
\* content; the map invocation has yielded SUCCESS-<class name>.
C5_ContentUserIdsAreSortedUnion ==
    \A k \in DOMAIN pc :
        (pc[k] # "start" /\ MetadataKey(k) \in DOMAIN datastore0) =>
            LET content_user_ids == datastore[MetadataKey(k)].content_user_ids
            IN  /\ StrictlyIncreasing(content_user_ids)
                /\ {content_user_ids[i] : i \in DOMAIN content_user_ids}
                       = RoleIdsOf(datastore0[k])
                /\ pc[k] = "done"
                /\ output[k] = <<<<SuccessKey(k[1]), k[2]>>>>

\* An exploration rights snapshot whose role lists overlap, repeat an id and
\* are not in order has been processed, and so has the topic snapshot.
C5_Witness ==
    \E k, j \in DOMAIN pc :
        /\ pc[k] = "done" /\ pc[j] = "done"
        /\ k[1] = ExplorationRightsSnapshotContentModel
        /\ j[1] = TopicRightsSnapshotContentModel
        /\ datastore0[k].content.owner_ids = <<3, 1>>
        /\ datastore0[k].content.editor_ids = <<1, 1>>
        /\ datastore0[k].content.viewer_ids = <<2>>
        /\ datastore[MetadataKey(k)].content_user_ids = <<1, 2, 3>>
        /\ datastore[MetadataKey(j)].content_user_ids = <<1, 3>>

(***************************************************************************)
(* The two jobs that write user ids: a run of either.                      *)
(***************************************************************************)
UserIdJobsInit ==
    \/ AddCommitCmdsInit
    \/ AddContentInit

UserIdJobsNext ==
    \/ \E k \in DOMAIN pc : AddCommitCmdsMapCollection(k)
    \/ \E k \in DOMAIN pc : AddCommitCmdsMapMigrate(k)
    \/ \E k \in DOMAIN pc : AddCommitCmdsMapExploration(k)
    \/ \E k \in DOMAIN pc : AddCommitCmdsMapTopic(k)
    \/ \E k \in DOMAIN pc : AddContentMapCollection(k)
    \/ \E k \in DOMAIN pc : AddContentMapExploration(k)
    \/ \E k \in DOMAIN pc : AddContentMapTopic(k)

SpecUserIdJobs == UserIdJobsInit /\ [][UserIdJobsNext]_vars

\* Two records (dicts) with the same fields, equal in all but `fields`.
SameBut(after, before, fields) ==
    /\ DOMAIN after = DOMAIN before
    /\ \A f \in DOMAIN before \ fields : after[f] = before[f]

\* A stored record differs from what it was at most in content_user_ids,
\* in commit_cmds_user_ids and in the assignee_id entries of commit_cmds.
OnlyUserIdFieldsDiffer(after, before) ==
    /\ SameBut(after, before,
               {"content_user_ids", "commit_cmds_user_ids", "commit_cmds"})
    /\ "commit_cmds" \in DOMAIN before =>
           /\ Len(after.commit_cmds) = Len(before.commit_cmds)
           /\ \A i \in DOMAIN before.commit_cmds :
                  SameBut(after.commit_cmds[i], before.commit_cmds[i],
                          {"assignee_id"})

\* The records the map invocation of k is to write: for a snapshot content
\* the metadata record of its id, for a snapshot metadata the record itself
\* and, when it goes through _migrate_user_id, its commit log entry.
TargetsOf(k) ==
    IF k[1] \in AddContent_entity_classes_to_map_over
    THEN {MetadataKey(k)}
    ELSE IF IsMigrated(k) THEN {k, LogKey(k)} ELSE {k}

\* C12: in a run of AddContentUserIdsContentJob or of
\* AddCommitCmdsUserIdsMetadataJob no record is created or deleted, every
\* stored record keeps its last-updated timestamp and every field other than
\* content_user_ids, commit_cmds_user_ids and the assignee_id entries of
\* commit_cmds, and a record is written only if it is the target of a map
\* invocation that has started.
C12_WritesOnlyUserIdFields ==
    /\ DOMAIN datastore = DOMAIN datastore0
    /\ \A key \in DOMAIN datastore0 :
           /\ OnlyUserIdFieldsDiffer(datastore[key], datastore0[key])
           /\ datastore[key].last_updated = datastore0[key].last_updated
           /\ datastore[key] # datastore0[key] =>
                  \E k \in DOMAIN pc : pc[k] # "start" /\ key \in TargetsOf(k)

\* The migration has corrected and stored a snapshot and its commit log
\* entry, map has stored the merged ids, and the snapshot beside it, not yet
\* mapped, is as it was.
C12_Witness ==
    \E k, j \in DOMAIN pc :
        /\ pc[k] = "done"
        /\ Yielded(k, MIGRATION_SUCCESS) # {}
        /\ datastore[k].commit_cmds # datastore0[k].commit_cmds
        /\ datastore[k].commit_cmds_user_ids # datastore0[k].commit_cmds_user_ids
        /\ datastore[LogKey(k)] # datastore0[LogKey(k)]
        /\ datastore[k].last_updated = "then"
        /\ datastore[LogKey(k)].last_updated = "then"
        /\ pc[j] = "start"
        /\ datastore[j] = datastore0[j]

(***************************************************************************)
(* ActivityContributorsSummaryOneOffJob.                                   *)
(***************************************************************************)
CollectionModel == "CollectionModel"

ExplorationModel == "ExplorationModel"

CollectionSummaryModel == "CollectionSummaryModel"

ExpSummaryModel == "ExpSummaryModel"

RECURSIVE Orders(_)
Orders(S) ==
    IF S = {} THEN {<<>>}
    ELSE UNION {{<<x>> \o l : l \in Orders(S \ {x})} : x \in S}

\* list(a_dict): the keys of the dict, each once, in the order the dict
\* iterates them (any order).
list_of_dict(a_dict) == Orders(DOMAIN a_dict)

ContributorIds == {1, 2, 3}

\* compute_collection_contributors_summary(id) and
\* compute_exploration_contributors_summary(id): a dict from the ids of the
\* committers to the number of their commits.
compute_contributors_summary ==
    UNION {[keys -> 1..MaxCommits] : keys \in SUBSET ContributorIds}

\* get_collection_summary_by_id(id), get_exploration_summary_by_id(id)
get_summary_by_id(ds, summary_class, id) == get_by_id(ds, summary_class, id)

\* save_collection_summary(summary), save_exploration_summary(summary)
save_summary(ds, summary) == put(ds, summary, TRUE)

\* An update that leaves contributor_ids as it was.
set_contributors_summary_only(summary, contributors_summary, key_list) ==
    [summary EXCEPT !.contributors_summary = contributors_summary]

\* summary.contributors_summary = compute_..._contributors_summary(model.id)
\* summary.contributor_ids = list(summary.contributors_summary)
set_contributors(summary, contributors_summary, key_list) ==
    [summary EXCEPT !.contributors_summary = contributors_summary,
                    !.contributor_ids = key_list]

ActivityContributors_entity_classes_to_map_over ==
    {CollectionModel, ExplorationModel}

SummaryClassOf(activity_class) ==
    IF activity_class = CollectionModel THEN CollectionSummaryModel
    ELSE ExpSummaryModel

\* The contributors_summary a stored summary may hold when the job starts.
StoredContributorsSummaries ==
    {<<>>, [c \in {1} |-> 1], [c \in {2, 3} |-> IF c = 2 THEN 1 ELSE 2]}

\* One collection or exploration, deleted or not, with its summary record
\* stored or not: contributor_ids and contributors_summary hold anything.
ActivityContributorsInit ==
    \E activity_class \in ActivityContributors_entity_classes_to_map_over :
    \E deleted \in BOOLEAN :
    \E has_summary \in BOOLEAN :
    \E contributor_ids \in ListsUpTo(ContributorIds, MaxContributors) :
    \E contributors_summary \in StoredContributorsSummaries :
        LET activity == [class |-> activity_class, id |-> <<"a1">>,
                         deleted |-> deleted, last_updated |-> "then"]
            summary == [class |-> SummaryClassOf(activity_class), id |-> <<"a1">>,
                        contributor_ids |-> contributor_ids,
                        contributors_summary |-> contributors_summary,
                        last_updated |-> "then"]
        IN  /\ has_summary
               \/ (contributor_ids = <<>> /\ contributors_summary = <<>>)
            /\ StartOf(Store({activity} \cup IF has_summary THEN {summary} ELSE {}),
                       {<<activity.class, activity.id>>})

\* map, for a deleted model: it returns at once.
ActivityContributorsMapDeleted(k) ==
    /\ pc[k] = "start"
    /\ model[k].deleted
    /\ pc' = [pc EXCEPT ![k] = "done"]
    /\ UNCHANGED <<datastore, datastore0, model, output, raised, calls,
                   reduce_in, reduce_out>>

\* map, for a collection or an exploration that is not deleted.
ActivityContributorsMap(k) ==
    /\ pc[k] = "start"
    /\ ~model[k].deleted
    /\ LET summary == get_summary_by_id(datastore, SummaryClassOf(model[k].class),
                                        model[k].id)
       IN  IF IsNone(summary)
           THEN /\ Raise(k, "AttributeError")
                /\ UNCHANGED datastore
           ELSE \E contributors_summary \in compute_contributors_summary :
                \E key_list \in list_of_dict(contributors_summary) :
                    /\ datastore' =
                           save_summary(datastore,
                                        set_contributors(summary[1],
                                                         contributors_summary,
                                                         key_list))
                    /\ Yield(k, <<<<<<"SUCCESS">>, model[k].id>>>>, "done")
    /\ UNCHANGED <<datastore0, model, calls, reduce_in, reduce_out>>

ActivityContributorsNext ==
    \/ \E k \in DOMAIN pc : ActivityContributorsMapDeleted(k)
    \/ \E k \in DOMAIN pc : ActivityContributorsMap(k)

SpecActivityContributors ==
    ActivityContributorsInit /\ [][ActivityContributorsNext]_vars

(***************************************************************************)
(* ActivityContributorsSummaryOneOffJob: properties.                       *)
(***************************************************************************)
SummaryKey(k) == <<SummaryClassOf(k[1]), k[2]>>

\* C6: once map has processed a collection or an exploration that is not
\* deleted and has a summary record, the ids in the stored contributor_ids
\* are exactly the keys of the stored contributors_summary, each id once,
\* whatever the two fields held before.
C6_ContributorIdsAreSummaryKeys ==
    \A k \in DOMAIN pc :
        (pc[k] # "start" /\ ~datastore0[k].deleted
             /\ SummaryKey(k) \in DOMAIN datastore0) =>
            LET summary == datastore[SummaryKey(k)]
            IN  /\ {summary.contributor_ids[i] : i \in DOMAIN summary.contributor_ids}
                       = DOMAIN summary.contributors_summary
                /\ Len(summary.contributor_ids)
                       = Cardinality(DOMAIN summary.contributors_summary)
                /\ output[k] = <<<<<<"SUCCESS">>, k[2]>>>>

\* The summary held a repeated id and other keys before, and holds two
\* contributors after.
C6_Witness ==
    \E k \in DOMAIN pc :
        /\ pc[k] = "done"
        /\ ~datastore0[k].deleted
        /\ SummaryKey(k) \in DOMAIN datastore0
        /\ datastore0[SummaryKey(k)].contributor_ids = <<1, 1>>
        /\ DOMAIN datastore0[SummaryKey(k)].contributors_summary = {2, 3}
        /\ datastore[SummaryKey(k)].contributor_ids = <<3, 1>>

(***************************************************************************)
(* AuditContributorsOneOffJob.                                             *)
(***************************************************************************)
DUPLICATE_IDS == <<"DUPLICATE_IDS">>

MISSING_IN_SUMMARY == <<"MISSING_IN_SUMMARY">>

MISSING_IN_IDS == <<"MISSING_IN_IDS">>

\* len(a_list)
len(l) == Len(l)

\* The pairs map yields for a summary (the `model` of map) whose sets are
\* ids_set and summary_set, where the keys missing in contributor_ids are
\* missing_in_ids.
audit_pairs(summary_model, ids_set, summary_set, missing_in_ids) ==
    LET value == <<summary_model.id, summary_model.contributor_ids,
                   summary_model.contributors_summary>>
    IN  (IF Cardinality(ids_set) # len(summary_model.contributor_ids)
         THEN <<<<DUPLICATE_IDS, value>>>> ELSE <<>>)
        \o (IF ids_set \ summary_set # {}
            THEN <<<<MISSING_IN_SUMMARY, value>>>> ELSE <<>>)
        \o (IF missing_in_ids # {}
            THEN <<<<MISSING_IN_IDS, value>>>> ELSE <<>>)
        \o <<<<<<"SUCCESS">>, summary_model.id>>>>

\* A map whose third test repeats the second.
AuditContributors_map_one_sided(summary_model) ==
    LET ids_set == set(summary_model.contributor_ids)
        summary_set == DOMAIN summary_model.contributors_summary
    IN  audit_pairs(summary_model, ids_set, summary_set, ids_set \ summary_set)

\* AuditContributorsOneOffJob.map: the pairs it yields, in order.
AuditContributors_map(summary_model) ==
    LET ids_set == set(summary_model.contributor_ids)
        summary_set == DOMAIN summary_model.contributors_summary
    IN  audit_pairs(summary_model, ids_set, summary_set, summary_set \ ids_set)

AuditContributors_entity_classes_to_map_over ==
    {ExpSummaryModel, CollectionSummaryModel}

\* One summary of either class: contributor_ids is any list, repeats
\* included, and contributors_summary any dict from ids to commit counts.
AuditContributorsInit ==
    \E summary_class \in AuditContributors_entity_classes_to_map_over :
    \E contributor_ids \in ListsUpTo(ContributorIds, MaxContributors) :
    \E contributors_summary \in compute_contributors_summary :
        LET summary == [class |-> summary_class, id |-> <<"a1">>,
                        contributor_ids |-> contributor_ids,
                        contributors_summary |-> contributors_summary,
                        last_updated |-> "then"]
            other == [class |-> ExpSummaryModel, id |-> <<"b2">>,
                      contributor_ids |-> <<2, 1>>,
                      contributors_summary |-> [c \in {1, 2} |-> 1],
                      last_updated |-> "then"]
        IN  StartOf(Store({summary, other}),
                    {<<summary.class, summary.id>>, <<other.class, other.id>>})

AuditContributorsMap(k) ==
    /\ pc[k] = "start"
    /\ Yield(k, AuditContributors_map(model[k]), "done")
    /\ UNCHANGED <<datastore, datastore0, model, calls, reduce_in, reduce_out>>

AuditContributorsNext ==
    \/ \E k \in DOMAIN pc : AuditContributorsMap(k)

SpecAuditContributors == AuditContributorsInit /\ [][AuditContributorsNext]_vars

(***************************************************************************)
(* AuditContributorsOneOffJob: properties.                                 *)
(***************************************************************************)
HasRepeatedId(l) == \E i, j \in DOMAIN l : i # j /\ l[i] = l[j]

\* C14: once map has processed a summary record, it has yielded neither
\* MISSING_IN_SUMMARY nor MISSING_IN_IDS iff the set of the contributor_ids
\* is the set of the keys of contributors_summary; MISSING_IN_SUMMARY iff
\* some contributor id is not a key, MISSING_IN_IDS iff some key is not a
\* contributor id, DUPLICATE_IDS iff contributor_ids repeats an id; each of
\* these at most once, with the id of the record first in its value.
C14_AuditIsExact ==
    \A k \in DOMAIN pc :
        pc[k] = "done" =>
            LET ids == datastore0[k].contributor_ids
                ids_of == {ids[i] : i \in DOMAIN ids}
                keys == DOMAIN datastore0[k].contributors_summary
                Emitted(key) == Yielded(k, key) # {}
            IN  /\ (~Emitted(MISSING_IN_SUMMARY) /\ ~Emitted(MISSING_IN_IDS))
                       <=> ids_of = keys
                /\ Emitted(MISSING_IN_SUMMARY) <=> \E c \in ids_of : c \notin keys
                /\ Emitted(MISSING_IN_IDS) <=> \E c \in keys : c \notin ids_of
                /\ Emitted(DUPLICATE_IDS) <=> HasRepeatedId(ids)
                /\ \A key \in {DUPLICATE_IDS, MISSING_IN_SUMMARY, MISSING_IN_IDS} :
                       /\ Cardinality(Yielded(k, key)) <= 1
                       /\ \A i \in Yielded(k, key) : output[k][i][2][1] = k[2]
                /\ raised[k] = "none"

\* Map has processed a summary that repeats an id, has a contributor id
\* that is not a key and a key that is not a contributor id, and one whose
\* two fields agree.
C14_Witness ==
    \E k, j \in DOMAIN pc :
        /\ pc[k] = "done" /\ pc[j] = "done"
        /\ datastore0[k].contributor_ids = <<1, 1>>
        /\ DOMAIN datastore0[k].contributors_summary = {2}
        /\ Len(output[k]) = 4
        /\ output[j] = <<<<<<"SUCCESS">>, j[2]>>>>

(***************************************************************************)
(* ValidateSnapshotMetadataModelsJob.                                      *)
(***************************************************************************)
FAILURE_PREFIX == <<"VALIDATION FAILURE">>

SEP == " - "

\* Per snapshot metadata class: the parent class, the commit log class and
\* the word the id_string_format '<word>-%s-%s' starts with.
MODEL_NAMES_TO_PROPERTIES ==
    LET P(parent, log, word) ==
            [parent_model_class |-> parent, commit_log_model_class |-> log,
             id_string_format |-> word]
    IN  [class_name \in
            {"CollectionSnapshotMetadataModel", "ExplorationSnapshotMetadataModel",
             "QuestionSnapshotMetadataModel", "SkillSnapshotMetadataModel",
             "StorySnapshotMetadataModel", "TopicSnapshotMetadataModel",
             "SubtopicPageSnapshotMetadataModel",
             TopicRightsSnapshotMetadataModel,
             CollectionRightsSnapshotMetadataModel,
             ExplorationRightsSnapshotMetadataModel} |->
         CASE class_name = "CollectionSnapshotMetadataModel" ->
                  P("CollectionModel", "CollectionCommitLogEntryModel", "collection")
           [] class_name = "ExplorationSnapshotMetadataModel" ->
                  P("ExplorationModel", "ExplorationCommitLogEntryModel", "exploration")
           [] class_name = "QuestionSnapshotMetadataModel" ->
                  P("QuestionModel", "QuestionCommitLogEntryModel", "question")
           [] class_name = "SkillSnapshotMetadataModel" ->
                  P("SkillModel", "SkillCommitLogEntryModel", "skill")
           [] class_name = "StorySnapshotMetadataModel" ->
                  P("StoryModel", "StoryCommitLogEntryModel", "story")
           [] class_name = "TopicSnapshotMetadataModel" ->
                  P("TopicModel", "TopicCommitLogEntryModel", "topic")
           [] class_name = "SubtopicPageSnapshotMetadataModel" ->
                  P("SubtopicPageModel", "SubtopicPageCommitLogEntryModel",
                    "subtopicpage")
           [] class_name = TopicRightsSnapshotMetadataModel ->
                  P("TopicRightsModel", "TopicCommitLogEntryModel", "rights")
           [] class_name = CollectionRightsSnapshotMetadataModel ->
                  P("CollectionRightsModel", "CollectionCommitLogEntryModel", "rights")
           [] class_name = ExplorationRightsSnapshotMetadataModel ->
                  P("ExplorationRightsModel", "ExplorationCommitLogEntryModel",
                    "rights")]

SNAPSHOT_METADATA_MODELS == DOMAIN MODEL_NAMES_TO_PROPERTIES

\* A list that names the topic rights snapshots as well.
ALL_RIGHTS_MODEL_NAMES ==
    {CollectionRightsSnapshotMetadataModel, ExplorationRightsSnapshotMetadataModel,
     TopicRightsSnapshotMetadataModel}

MODEL_NAMES_WITH_PARTIAL_COMMIT_LOGS ==
    {CollectionRightsSnapshotMetadataModel, ExplorationRightsSnapshotMetadataModel}

\* id_string_format % (model_id, version)
format_id_string(id_string_format, model_id, version) ==
    <<id_string_format, HYPHEN>> \o model_id \o <<HYPHEN>> \o version

\* The pieces left and right of the first hyphen: str.split('-', 1).
split_at_first(s) ==
    LET hyphens == {i \in DOMAIN s : s[i] = HYPHEN}
    IN  IF hyphens = {} THEN <<s>>
        ELSE LET h == SetMin(hyphens)
             IN  <<SubSeq(s, 1, h - 1), SubSeq(s, h + 1, Len(s))>>

\* model_id, version = snapshot_model.id.rsplit('-', 1)
split_snapshot_id(id) == rsplit(id)

\* The (key, value) pairs map yields for snapshot_model, and the lookups it
\* makes; a ValueError when the id has no hyphen to unpack at.
validate_map(ds, snapshot_model) ==
    LET class_name == snapshot_model.class
        parts == split_snapshot_id(snapshot_model.id)
    IN  IF Len(parts) # 2
        THEN [raised |-> "ValueError", pairs |-> <<>>, lookups |-> {}]
        ELSE
        LET model_id == parts[1]
            version == parts[2]
            model_properties == MODEL_NAMES_TO_PROPERTIES[class_name]
            commit_log_id ==
                format_id_string(model_properties.id_string_format, model_id, version)
            parent_model_class ==
                get_by_id(ds, model_properties.parent_model_class, model_id)
            commit_log_model_class ==
                get_by_id(ds, model_properties.commit_log_model_class, commit_log_id)
            partial ==
                /\ class_name \in MODEL_NAMES_WITH_PARTIAL_COMMIT_LOGS
                /\ snapshot_model.commit_type \in {"create", "delete"}
            missing_commit_log_msg ==
                IF partial
                THEN <<"COMMIT LOGS SHOULD NOT EXIST AND DOES NOT EXIST">>
                ELSE FAILURE_PREFIX \o <<SEP, "MISSING COMMIT LOGS">>
            found_commit_log_msg ==
                IF partial
                THEN FAILURE_PREFIX \o <<SEP, "COMMIT LOGS SHOULD NOT EXIST BUT EXISTS">>
                ELSE <<"FOUND COMMIT LOGS">>
            message_prefix ==
                IF IsNone(commit_log_model_class) THEN missing_commit_log_msg
                ELSE found_commit_log_msg
        IN  [raised |-> "none",
             pairs |->
                 <<<<message_prefix \o <<SEP, class_name>>, snapshot_model.id>>,
                   IF IsNone(parent_model_class)
                   THEN <<FAILURE_PREFIX \o <<SEP, "MISSING PARENT MODEL", SEP, class_name>>,
                          snapshot_model.id>>
                   ELSE <<<<"FOUND PARENT MODEL", SEP, class_name>>, 1>>
                 >>,
             lookups |->
                 {<<"get_by_id", <<model_properties.parent_model_class, model_id>>>>,
                  <<"get_by_id",
                    <<model_properties.commit_log_model_class, commit_log_id>>>>}]

\* The ids of the entities snapshots are of: chunks and hyphens, among them
\* the <topicId>-<subtopicNum> of a subtopic page.
EntityIds ==
    (ListsUpTo({"abc123", "2", HYPHEN}, MaxIdPieces) \ {<<>>})
    \cup {<<"rights", HYPHEN, "abc123">>}

Versions == {"4", "11"}

COMMIT_TYPES == {"create", "delete", "edit", "revert"}

\* One snapshot metadata record of any class, of any entity and version,
\* with its parent and its commit log entry stored or not.
ValidateInit ==
    \E class_name \in SNAPSHOT_METADATA_MODELS :
    \E entity_id \in EntityIds :
    \E version \in Versions :
    \E commit_type \in COMMIT_TYPES :
    \E has_parent \in BOOLEAN :
    \E has_commit_log \in BOOLEAN :
        LET properties == MODEL_NAMES_TO_PROPERTIES[class_name]
            snapshot ==
                SnapshotMetadata(class_name, entity_id \o <<HYPHEN, version>>,
                                 commit_type, <<>>)
            parent == [class |-> properties.parent_model_class, id |-> entity_id,
                       last_updated |-> "then"]
            commit_log ==
                CommitLogEntry(properties.commit_log_model_class,
                               <<properties.id_string_format, HYPHEN>> \o entity_id
                                   \o <<HYPHEN, version>>,
                               <<>>)
        IN  StartOf(Store({snapshot}
                          \cup (IF has_parent THEN {parent} ELSE {})
                          \cup (IF has_commit_log THEN {commit_log} ELSE {})),
                    {<<snapshot.class, snapshot.id>>})

ValidateMap(k) ==
    /\ pc[k] = "start"
    /\ LET r == validate_map(datastore, model[k])
       IN  /\ IF r.raised # "none" THEN Raise(k, r.raised)
              ELSE Yield(k, r.pairs, "done")
           /\ calls' = calls \cup r.lookups
    /\ UNCHANGED <<datastore, datastore0, model, reduce_in, reduce_out>>

ValidateNext == \E k \in DOMAIN pc : ValidateMap(k)

SpecValidate == ValidateInit /\ [][ValidateNext]_vars

(***************************************************************************)
(* ValidateSnapshotMetadataModelsJob: properties.                          *)
(***************************************************************************)
\* The ids get_by_id was called with for a class.
LookedUp(class_name) ==
    {c[2][2] : c \in {d \in calls : d[1] = "get_by_id" /\ d[2][1] = class_name}}

RIGHTS_ABC123_4 == <<"rights", HYPHEN, "abc123", HYPHEN, "4">>

\* C7, as claimed: from the snapshot id "rights-abc123-4" the parent id
\* derived and used for the parent lookup is "abc123".
C7_ParentOfRightsAbc123 ==
    \A k \in DOMAIN pc :
        (pc[k] = "done" /\ k[2] = RIGHTS_ABC123_4) =>
            LookedUp(MODEL_NAMES_TO_PROPERTIES[k[1]].parent_model_class)
                = {<<"abc123">>}

\* C7, amended: the version is what follows the last hyphen of the snapshot
\* id and the parent id is all that precedes that hyphen, hyphens included:
\* from "rights-abc123-4" the parent id looked up is "rights-abc123" and the
\* version is "4", from "abc123-4" the parent id is "abc123", and from
\* parentId-subNumber-version it is parentId-subNumber. The commit log id
\* looked up is <format word>-<parent id>-<version>.
C7_VersionIsLastSuffix ==
    \A k \in DOMAIN pc :
        pc[k] = "done" =>
            \E h \in DOMAIN k[2] :
                LET parent_id == SubSeq(k[2], 1, h - 1)
                    version == SubSeq(k[2], h + 1, Len(k[2]))
                    properties == MODEL_NAMES_TO_PROPERTIES[k[1]]
                IN  /\ k[2][h] = HYPHEN
                    /\ \A i \in DOMAIN version : version[i] # HYPHEN
                    /\ LookedUp(properties.parent_model_class) = {parent_id}
                    /\ LookedUp(properties.commit_log_model_class)
                           = {<<properties.id_string_format, HYPHEN>> \o parent_id
                                  \o <<HYPHEN>> \o version}
                    /\ k[2] = RIGHTS_ABC123_4 =>
                           /\ parent_id = <<"rights", HYPHEN, "abc123">>
                           /\ version = <<"4">>
                    /\ k[2] = <<"abc123", HYPHEN, "4">> =>
                           parent_id = <<"abc123">> /\ version = <<"4">>

\* The snapshot "rights-abc123-4" has been mapped, and its parent
\* "rights-abc123" was found.
C7_Witness ==
    \E k \in DOMAIN pc :
        /\ pc[k] = "done"
        /\ k[2] = RIGHTS_ABC123_4
        /\ output[k][2][1][1] = "FOUND PARENT MODEL"

\* The key of the first pair map yielded for k is a failure key.
CommitLogKeyIsFailure(k) == output[k][1][1][1] = "VALIDATION FAILURE"

\* A commit log entry of the commit log class of k is stored.
CommitLogStored(k) ==
    \E key \in DOMAIN datastore0 :
        key[1] = MODEL_NAMES_TO_PROPERTIES[k[1]].commit_log_model_class

\* Rights snapshots of collections and explorations get no commit log entry
\* when the commit type is "create" or "delete".
NoCommitLogExpected(k) ==
    /\ k[1] \in {"CollectionRightsSnapshotMetadataModel",
                 "ExplorationRightsSnapshotMetadataModel"}
    /\ datastore0[k].commit_type \in {"create", "delete"}

\* C8: a missing commit log entry is classified under a key that does not
\* start with the failure prefix exactly when the snapshot is a collection
\* or exploration rights snapshot of commit type "create" or "delete"; a
\* commit log entry that exists is classified under a failure key exactly in
\* that case.
C8_CommitLogClassification ==
    \A k \in DOMAIN pc :
        pc[k] = "done" =>
            /\ output[k][1][2] = k[2]
            /\ CommitLogKeyIsFailure(k) <=>
                   (CommitLogStored(k) <=> NoCommitLogExpected(k))
            /\ output[k][1][1][Len(output[k][1][1])] = k[1]

\* A missing entry is expected for an exploration rights snapshot of commit
\* type "create" and is a failure for a topic rights snapshot of that type.
C8_Witness ==
    \E k \in DOMAIN pc :
        /\ pc[k] = "done"
        /\ k[1] = ExplorationRightsSnapshotMetadataModel
        /\ datastore0[k].commit_type = "delete"
        /\ ~CommitLogStored(k)
        /\ ~CommitLogKeyIsFailure(k)

(***************************************************************************)
(* The reduce step of the jobs.                                            *)
(***************************************************************************)
\* The second component of a pair reduce yields: len(values), or values.
Count(n) == [count |-> n]

AllValues(values) == [values |-> values]

\* yield (key, len(values)): the reduce of
\* ActivityContributorsSummaryOneOffJob, AddContentUserIdsContentJob and
\* AuditSnapshotMetadataModelsJob.
count_reduce(key, values) == <<<<key, Count(Len(values))>>>>

AuditContributors_reduce(key, values) ==
    IF key = <<"SUCCESS">> THEN <<<<key, Count(Len(values))>>>>
    ELSE <<<<key, AllValues(values)>>>>

\* A reduce that counts the keys starting with SUCCESS alone.
AddCommitCmds_reduce_success_only(key, ids) ==
    IF startswith(key, <<"SUCCESS">>) THEN <<<<key, Count(Len(ids))>>>>
    ELSE <<<<key, AllValues(ids)>>>>

AddCommitCmds_reduce(key, ids) ==
    IF startswith(key, <<"SUCCESS">>) \/ key = MIGRATION_SUCCESS
    THEN <<<<key, Count(Len(ids))>>>>
    ELSE <<<<key, AllValues(ids)>>>>

Validate_reduce(key, values) ==
    IF startswith(key, FAILURE_PREFIX) THEN <<<<key, AllValues(values)>>>>
    ELSE <<<<key, Count(Len(values))>>>>

\* The keys the map of each job can yield.
ActivityContributors_map_keys == {<<"SUCCESS">>}

AuditContributors_map_keys ==
    {<<"DUPLICATE_IDS">>, <<"MISSING_IN_SUMMARY">>, <<"MISSING_IN_IDS">>,
     <<"SUCCESS">>}

AddContent_map_keys ==
    {SuccessKey(c) : c \in AddContent_entity_classes_to_map_over}

AddCommitCmds_map_keys ==
    {MIGRATION_FAILURE, MIGRATION_SUCCESS, MIGRATION_SUCCESS_MISSING_COMMIT_LOG}
    \cup {SuccessKey(c) : c \in AddCommitCmds_entity_classes_to_map_over}

\* '%s-deleted', '%s-cmd-%s', '%s-missing-cmd', '%s-%s-field-%s',
\* '%s-%s-length-%s' and '%s-length-%s', for some of the names and lengths.
AuditSnapshotMetadata_map_keys ==
    UNION {{<<t, HYPHEN, "deleted">>,
            <<t, HYPHEN, "cmd", HYPHEN, CMD_CHANGE_ROLE>>,
            <<t, HYPHEN, "missing", HYPHEN, "cmd">>,
            <<t, HYPHEN, CMD_CHANGE_ROLE, HYPHEN, "field", HYPHEN, "assignee_id">>,
            <<t, HYPHEN, CMD_CHANGE_ROLE, HYPHEN, "length", HYPHEN, "2">>,
            <<t, HYPHEN, "length", HYPHEN, "0">>} :
           t \in {"collection", "exploration", "topic"}}

Validate_map_keys ==
    UNION {{FAILURE_PREFIX \o <<SEP, "MISSING COMMIT LOGS", SEP, c>>,
            <<"FOUND COMMIT LOGS", SEP, c>>,
            <<"COMMIT LOGS SHOULD NOT EXIST AND DOES NOT EXIST", SEP, c>>,
            FAILURE_PREFIX \o <<SEP, "COMMIT LOGS SHOULD NOT EXIST BUT EXISTS", SEP, c>>,
            FAILURE_PREFIX \o <<SEP, "MISSING PARENT MODEL", SEP, c>>,
            <<"FOUND PARENT MODEL", SEP, c>>} :
           c \in {"CollectionSnapshotMetadataModel",
                  ExplorationRightsSnapshotMetadataModel}}

MapKeys ==
    [job \in {"ActivityContributorsSummaryOneOffJob", "AuditContributorsOneOffJob",
              "AddContentUserIdsContentJob", "AddCommitCmdsUserIdsMetadataJob",
              "AuditSnapshotMetadataModelsJob",
              "ValidateSnapshotMetadataModelsJob"} |->
     CASE job = "ActivityContributorsSummaryOneOffJob" -> ActivityContributors_map_keys
       [] job = "AuditContributorsOneOffJob" -> AuditContributors_map_keys
       [] job = "AddContentUserIdsContentJob" -> AddContent_map_keys
       [] job = "AddCommitCmdsUserIdsMetadataJob" -> AddCommitCmds_map_keys
       [] job = "AuditSnapshotMetadataModelsJob" -> AuditSnapshotMetadata_map_keys
       [] job = "ValidateSnapshotMetadataModelsJob" -> Validate_map_keys]

\* The values yielded under a key: record ids.
ReduceValues == {SnapshotId("a1", "1"), SnapshotId("b2", "3")}

TenValues ==
    [i \in 1..10 |-> IF i % 2 = 0 THEN SnapshotId("a1", "1") ELSE SnapshotId("b2", "3")]

\* reduce is called once per key the maps yielded, with the values yielded
\* under it.
ReduceInit ==
    /\ datastore = <<>>
    /\ datastore0 = <<>>
    /\ pc = <<>>
    /\ model = <<>>
    /\ output = <<>>
    /\ raised = <<>>
    /\ calls = {}
    /\ reduce_out = <<>>
    /\ \E job \in DOMAIN MapKeys :
       \E key \in MapKeys[job] :
       \E values \in (ListsUpTo(ReduceValues, MaxValues) \ {<<>>}) \cup {TenValues} :
           reduce_in = Some([job |-> job, key |-> key, values |-> values])

Reduce(job, yielded) ==
    /\ ~IsNone(reduce_in)
    /\ reduce_in[1].job = job
    /\ reduce_out = <<>>
    /\ reduce_out' = yielded
    /\ UNCHANGED <<datastore, datastore0, pc, model, output, raised, calls,
                   reduce_in>>

ReduceActivityContributors ==
    Reduce("ActivityContributorsSummaryOneOffJob",
           count_reduce(reduce_in[1].key, reduce_in[1].values))

ReduceAuditContributors ==
    Reduce("AuditContributorsOneOffJob",
           AuditContributors_reduce(reduce_in[1].key, reduce_in[1].values))

ReduceAddContent ==
    Reduce("AddContentUserIdsContentJob",
           count_reduce(reduce_in[1].key, reduce_in[1].values))

ReduceAddCommitCmds ==
    Reduce("AddCommitCmdsUserIdsMetadataJob",
           AddCommitCmds_reduce(reduce_in[1].key, reduce_in[1].values))

ReduceAuditSnapshotMetadata ==
    Reduce("AuditSnapshotMetadataModelsJob",
           count_reduce(reduce_in[1].key, reduce_in[1].values))

ReduceValidate ==
    Reduce("ValidateSnapshotMetadataModelsJob",
           Validate_reduce(reduce_in[1].key, reduce_in[1].values))

ReduceNext ==
    \/ ReduceActivityContributors
    \/ ReduceAuditContributors
    \/ ReduceAddContent
    \/ ReduceAddCommitCmds
    \/ ReduceAuditSnapshotMetadata
    \/ ReduceValidate

SpecReduce == ReduceInit /\ [][ReduceNext]_vars

(***************************************************************************)
(* The reduce step: properties.                                            *)
(***************************************************************************)
\* The keys of the detail categories: those that start with the failure
\* prefix of the validation job, and the failure and audit keys of the
\* other jobs.
IsDetailKey(key) ==
    key[1] \in {"VALIDATION FAILURE", "MIGRATION_FAILURE", "DUPLICATE_IDS",
                "MISSING_IN_SUMMARY", "MISSING_IN_IDS"}

Reduced == reduce_out # <<>>

\* C9, as claimed: reduce yields a detail key with the list of its values
\* and every other key, the success keys among them, with their number.
C9_DetailListsElseCounts ==
    Reduced =>
        reduce_out =
            <<<<reduce_in[1].key,
                IF IsDetailKey(reduce_in[1].key)
                THEN [values |-> reduce_in[1].values]
                ELSE [count |-> Len(reduce_in[1].values)]>>>>

\* C9, amended: reduce yields a detail key with the list of its values
\* unchanged and every other key with the number of its values (SUCCESS with
\* 10 values yields (SUCCESS, 10)), except MIGRATION_SUCCESS_MISSING_COMMIT_LOG:
\* the reduce of AddCommitCmdsUserIdsMetadataJob counts only the keys that
\* start with SUCCESS and the key MIGRATION_SUCCESS, and yields this success
\* key with the list of its values.
C9_CountsExceptMissingCommitLog ==
    Reduced =>
        reduce_out =
            <<<<reduce_in[1].key,
                IF \/ IsDetailKey(reduce_in[1].key)
                   \/ reduce_in[1].key = <<"MIGRATION_SUCCESS_MISSING_COMMIT_LOG">>
                THEN [values |-> reduce_in[1].values]
                ELSE [count |-> Len(reduce_in[1].values)]>>>>

\* MIGRATION_SUCCESS_MISSING_COMMIT_LOG has been reduced with three values.
C9_Witness ==
    /\ Reduced
    /\ reduce_in[1].key = <<"MIGRATION_SUCCESS_MISSING_COMMIT_LOG">>
    /\ Len(reduce_in[1].values) = 3
    /\ reduce_out[1][2] = [values |-> reduce_in[1].values]

(***************************************************************************)
(* The two jobs that write user ids: one map invocation as a whole, and    *)
(* the map invocations of a run one after the other.                       *)
(***************************************************************************)
MapResult(ds, pairs, exception) ==
    [datastore |-> ds, output |-> pairs, raised |-> exception]

\* The end of map after the call of an _add_*_user_ids that ended as r.
AfterAddUserIds(r, pairs, entity) ==
    MapResult(r.datastore,
              IF r.raised = "none"
              THEN pairs \o <<<<SuccessKey(entity.class), entity.id>>>>
              ELSE pairs,
              r.raised)

\* AddCommitCmdsUserIdsMetadataJob.map, from its call to its end: the
\* possible results.
AddCommitCmds_map(ds, snapshot_model) ==
    IF snapshot_model.class = CollectionRightsSnapshotMetadataModel
    THEN {AfterAddUserIds(_add_col_and_exp_user_ids(ds, snapshot_model),
                          <<>>, snapshot_model)}
    ELSE IF snapshot_model.class = TopicRightsSnapshotMetadataModel
    THEN {AfterAddUserIds(AddCommitCmds_add_topic_user_ids(ds, snapshot_model),
                          <<>>, snapshot_model)}
    ELSE IF has_two_commit_cmds(snapshot_model)
    THEN {IF o.raised # "none"
          THEN MapResult(o.datastore, <<>>, o.raised)
          ELSE AfterAddUserIds(
                   _add_col_and_exp_user_ids(o.datastore, o.snapshot_model),
                   o.result, snapshot_model) :
          o \in _migrate_user_id(ds, snapshot_model)}
    ELSE {AfterAddUserIds(_add_col_and_exp_user_ids(ds, snapshot_model),
                          <<>>, snapshot_model)}

\* AddContentUserIdsContentJob.map, from its call to its end.
AddContent_map(ds, rights_snapshot_model) ==
    LET r == IF rights_snapshot_model.class = CollectionRightsSnapshotContentModel
             THEN _add_collection_user_ids(ds, rights_snapshot_model)
             ELSE IF rights_snapshot_model.class
                         = ExplorationRightsSnapshotContentModel
             THEN _add_exploration_user_ids(ds, rights_snapshot_model)
             ELSE AddContent_add_topic_user_ids(ds, rights_snapshot_model)
    IN  {AfterAddUserIds(r, <<>>, rights_snapshot_model)}

\* The map invocations of a run made one after the other, in the order
\* `order`, each on the entity the run started with: the possible ends.
RECURSIVE SequentialRuns(_, _)
SequentialRuns(ds, order) ==
    IF order = <<>>
    THEN {[datastore |-> ds, output |-> <<>>, raised |-> <<>>]}
    ELSE LET k == Head(order)
             results == IF k[1] \in AddContent_entity_classes_to_map_over
                        THEN AddContent_map(ds, datastore0[k])
                        ELSE AddCommitCmds_map(ds, datastore0[k])
         IN  UNION {{[datastore |-> rest.datastore,
                      output |-> <<r.output>> \o rest.output,
                      raised |-> <<r.raised>> \o rest.raised] :
                        rest \in SequentialRuns(r.datastore, Tail(order))} :
                    r \in results}

(***************************************************************************)
(* The two jobs that write user ids: properties of a run.                  *)
(***************************************************************************)
AllEnded == \A k \in DOMAIN pc : pc[k] \in {"done", "raised"}

\* The values yielded under key, gathered from the invocations in `order`.
RECURSIVE ValuesUnder(_, _)
ValuesUnder(key, order) ==
    IF order = <<>> THEN <<>>
    ELSE LET under == SelectSeq(output[Head(order)], LAMBDA pair : pair[1] = key)
         IN  [i \in DOMAIN under |-> under[i][2]] \o ValuesUnder(key, Tail(order))

\* The reduce of the job that is running.
RunReduce(key, values) ==
    IF \E k \in DOMAIN pc : k[1] \in AddContent_entity_classes_to_map_over
    THEN count_reduce(key, values)
    ELSE AddCommitCmds_reduce(key, values)

RunMapKeys ==
    IF \E k \in DOMAIN pc : k[1] \in AddContent_entity_classes_to_map_over
    THEN AddContent_map_keys
    ELSE AddCommitCmds_map_keys

SameBag(a, b) ==
    /\ Len(a) = Len(b)
    /\ \A i \in DOMAIN a :
           Cardinality({j \in DOMAIN a : a[j] = a[i]})
               = Cardinality({j \in DOMAIN b : b[j] = a[i]})

\* Two reduce outputs for one key: the same count, or the same values up to
\* their order.
SameUpToOrder(reduced, other) ==
    /\ Len(reduced) = 1 /\ Len(other) = 1
    /\ reduced[1][1] = other[1][1]
    /\ DOMAIN reduced[1][2] = DOMAIN other[1][2]
    /\ IF "count" \in DOMAIN reduced[1][2]
       THEN reduced[1][2].count = other[1][2].count
       ELSE SameBag(reduced[1][2].values, other[1][2].values)

\* The run has ended as the sequential run does.
EndsAs(run, order) ==
    /\ run.datastore = datastore
    /\ \A i \in DOMAIN order : run.output[i] = output[order[i]]

\* C15: in a run of AddContentUserIdsContentJob or of
\* AddCommitCmdsUserIdsMetadataJob the map invocations over distinct records
\* have disjoint targets (the metadata record of the input's id and, for the
\* migration, its one commit log entry) and write nothing else; so when
\* every invocation has ended, in whatever interleaving, the store and the
\* pairs yielded are those of the invocations made one after the other in
\* any order (with the same transactions failed), and reduce gives for every
\* key the same count, or the same values up to order, in whatever order the
\* values reach it.
C15_OrderOfMapsIsImmaterial ==
    /\ \A k, j \in DOMAIN pc : k # j => TargetsOf(k) \cap TargetsOf(j) = {}
    /\ \A key \in DOMAIN datastore :
           (key \notin DOMAIN datastore0 \/ datastore[key] # datastore0[key]) =>
               Cardinality({k \in DOMAIN pc :
                               pc[k] # "start" /\ key \in TargetsOf(k)}) = 1
    /\ AllEnded =>
           \A order \in Orders(DOMAIN pc) :
               LET same_failures ==
                       {run \in SequentialRuns(datastore0, order) :
                           \A i \in DOMAIN order : run.raised[i] = raised[order[i]]}
               IN  /\ same_failures # {}
                   /\ \A run \in same_failures : EndsAs(run, order)
                   /\ \A other \in Orders(DOMAIN pc) :
                      \A key \in RunMapKeys :
                          ValuesUnder(key, order) # <<>> =>
                              SameUpToOrder(
                                  RunReduce(key, ValuesUnder(key, order)),
                                  RunReduce(key, ValuesUnder(key, other)))

\* Two exploration rights snapshots have been migrated and merged, each
\* with its own commit log entry, and reduce has two values to count.
C15_Witness ==
    \E k, j \in DOMAIN pc :
        /\ k # j
        /\ AllEnded
        /\ Yielded(k, MIGRATION_SUCCESS) # {} /\ Yielded(j, MIGRATION_SUCCESS) # {}
        /\ datastore[k] # datastore0[k] /\ datastore[j] # datastore0[j]
        /\ datastore[LogKey(k)] # datastore0[LogKey(k)]
        /\ datastore[LogKey(j)] # datastore0[LogKey(j)]
        /\ LogKey(k) # LogKey(j)
        /\ Len(ValuesUnder(MIGRATION_SUCCESS, <<k, j>>)) = 2

\* Two invocations have yielded MIGRATION_FAILURE: reduce emits the two
\* values in the order in which they reach it.
DetailListInTwoOrders ==
    \E k, j \in DOMAIN pc :
        /\ AllEnded
        /\ Len(ValuesUnder(MIGRATION_FAILURE, <<k, j>>)) = 2
        /\ AddCommitCmds_reduce(MIGRATION_FAILURE,
                                ValuesUnder(MIGRATION_FAILURE, <<k, j>>))
               # AddCommitCmds_reduce(MIGRATION_FAILURE,
                                      ValuesUnder(MIGRATION_FAILURE, <<j, k>>))

\* Both invocations are between the yield of _migrate_user_id's result and
\* the call of _add_col_and_exp_user_ids.
BothMapsInFlight ==
    \E k, j \in DOMAIN pc :
        k # j /\ pc[k] = "yielded_result" /\ pc[j] = "yielded_result"

====
